---------------------------- MODULE Spec2Model ----------------------------
(***************************************************************************)
(* Model of custom_components/wyzeapi/light.py (and entity.py): the Wyze   *)
(* bulb entity (WyzeLight), the camera floodlight entity                   *)
(* (WyzeCamerafloodlight) and the platform set-up (async_setup_entry).     *)
(*                                                                         *)
(* One action is one run of a handler between two suspension points of the *)
(* cooperative event loop.  The vendor library and the host platform are   *)
(* the environment: a vendor call ends "ok", "error" (any failure that is  *)
(* not an authentication failure) or "auth" (authentication failure), a    *)
(* fetched or pushed record is any record of a small set.                  *)
(***************************************************************************)
EXTENDS Integers, Sequences, FiniteSets, TLC

VARIABLES
    device,        \* WyzeLight._device: the bulb record the entity points to
    deviceType,    \* WyzeLight._device_type
    cfgLocal,      \* config_entry.options.get(BULB_LOCAL_CONTROL)
    localControl,  \* WyzeLight._local_control
    justUpdated,   \* WyzeLight._just_updated
    bulbLife,      \* "new" (constructed), "added" (in hass), "removed"
    tasks,         \* remote calls scheduled with loop.create_task, not yet finished
    scheduled,     \* state updates scheduled by the bulb entity, not yet written
    updPc,         \* async_update: "idle" or "fetching" (awaiting service.update)
    signal,        \* the last dispatcher signal sent by the bulb entity
    overtaken,     \* a remote call finished while an earlier one was still pending
    camera,        \* WyzeCamerafloodlight._device
    floodLife,     \* "new", "added", "removed"
    floodCalls,    \* the floodlight_on / floodlight_off calls being awaited
    floodSched,    \* state updates scheduled by the floodlight entity
    floodHa,       \* the floodlight's is_on as last written to the host
    setupPc,       \* position of async_setup_entry
    bulbsIn,       \* what bulb_service.get_bulbs() returns
    camerasIn,     \* what camera_service.get_cameras() returns
    lights,        \* the local list `lights` of async_setup_entry
    addCalls,      \* the calls of async_add_entities, each its entity list
    req,           \* the keyword arguments of the command under study
    last           \* what the handler that ran last did (history)

vars == <<device, deviceType, cfgLocal, localControl, justUpdated, bulbLife,
          tasks, scheduled, updPc, signal, overtaken,
          camera, floodLife, floodCalls, floodSched, floodHa,
          setupPc, bulbsIn, camerasIn, lights, addCalls, req, last>>

bulbVars == <<device, deviceType, cfgLocal, localControl, justUpdated, bulbLife,
              tasks, scheduled, updPc, signal, overtaken>>
floodVars == <<camera, floodLife, floodCalls, floodSched, floodHa>>
setupVars == <<setupPc, bulbsIn, camerasIn, lights, addCalls>>

(***************************************************************************)
(* Bounds of the model.                                                    *)
(***************************************************************************)
MaxPending == 2       \* remote calls pending at once
MaxScheduled == 2     \* state updates scheduled and not yet written
MaxBulbs == 2         \* bulbs returned by get_bulbs
MaxCameras == 2       \* cameras returned by get_cameras

(***************************************************************************)
(* Values.                                                                 *)
(***************************************************************************)
LIGHT == "Light"
MESH_LIGHT == "MeshLight"
LIGHTSTRIP == "LightStrip"
SupportedTypes == {LIGHT, MESH_LIGHT, LIGHTSTRIP}

EFFECT_SUN_MATCH == "sun match"
EFFECT_SHADOW == "shadow"
EFFECT_LEAP == "leap"
EFFECT_FLICKER == "flicker"

\* A keyword argument: missing from kwargs, passed as None, or passed a value.
Absent(d) == [tag |-> "absent", v |-> d]
None(d) == [tag |-> "none", v |-> d]
Val(x) == [tag |-> "val", v |-> x]
\* kwargs.get(key) is not None
IsGiven(a) == a.tag = "val"

NoKwargs ==
    [brightness |-> Absent(0), color_temp |-> Absent(0),
     hs_color |-> Absent(<<>>), effect |-> Absent("")]

Digits == <<"0", "1", "2", "3", "4", "5", "6", "7", "8", "9">>

\* str(n) of a natural number
RECURSIVE Str(_)
Str(n) == IF n < 10 THEN Digits[n + 1] ELSE Str(n \div 10) \o Digits[(n % 10) + 1]

\* create_pid_pair(PropertyIDs.<pid>, value)
create_pid_pair(pid, value) == [pid |-> pid, pvalue |-> value]

\* Python's round() of the rational num/den (den > 0): to the nearest integer,
\* a tie to the even one.
RoundHalfEven(num, den) ==
    LET q == num \div den
        r == num % den
    IN  IF 2 * r < den THEN q
        ELSE IF 2 * r > den THEN q + 1
        ELSE IF q % 2 = 0 THEN q ELSE q + 1

BrightnessPctTrunc(b) == (b * 100) \div 255

\* round((brightness / 255) * 100)
BrightnessPct(b) == RoundHalfEven(b * 100, 255)

\* color_util.color_temperature_mired_to_kelvin
MiredToKelvin(m) == 1000000 \div m

\* color_rgb_to_hex(*color_temperature_to_rgb(kelvin)), on the inputs used
KelvinToHex(k) ==
    CASE k = 6535 -> "fffffb"
      [] k = 4000 -> "ffcea6"
      [] k = 2702 -> "ffa758"
      [] OTHER -> "ffffff"

\* color_rgb_to_hex(*color_hs_to_RGB(h, s)), on the inputs used
HsToHex(hs) ==
    CASE hs = <<0, 100>> -> "ff0000"
      [] hs = <<240, 100>> -> "0000ff"
      [] hs = <<120, 50>> -> "7fff7f"
      [] OTHER -> "ffffff"

\* bool(x) of kwargs.get(ATTR_COLOR_TEMP, kwargs.get(ATTR_HS_COLOR))
SunMatchTrigger(kw) ==
    IF kw.color_temp.tag = "absent"
    THEN IsGiven(kw.hs_color) /\ Len(kw.hs_color.v) > 0
    ELSE IsGiven(kw.color_temp) /\ kw.color_temp.v # 0

(***************************************************************************)
(* WyzeLight.async_turn_on, lines 116-206: the options list and the local  *)
(* record, built step by step.  st = [device, options, local_control].     *)
(***************************************************************************)
BrightnessStep(st, kw) ==
    IF IsGiven(kw.brightness)
    THEN LET brightness == BrightnessPct(kw.brightness.v)
         IN  [st EXCEPT
                !.options = Append(@, create_pid_pair("BRIGHTNESS", Str(brightness))),
                !.device.brightness = brightness]
    ELSE st

SunMatchStep(st, kw) ==
    IF st.device.sun_match /\ SunMatchTrigger(kw)
    THEN [st EXCEPT
            !.options = Append(@, create_pid_pair("SUN_MATCH", Str(0))),
            !.device.sun_match = FALSE]
    ELSE st

ColorTempStep(st, kw, type) ==
    IF IsGiven(kw.color_temp)
    THEN LET color_temp == MiredToKelvin(kw.color_temp.v)
             s1 == [st EXCEPT
                      !.options = Append(@, create_pid_pair("COLOR_TEMP", Str(color_temp)))]
             s2 == IF type \in {MESH_LIGHT, LIGHTSTRIP}
                   THEN [s1 EXCEPT
                           !.options = Append(@, create_pid_pair("COLOR_MODE", Str(2))),
                           !.device.color_mode = "2"]
                   ELSE s1
         IN  [s2 EXCEPT !.device.color_temp = color_temp,
                        !.device.color = KelvinToHex(color_temp)]
    ELSE st

HsColorStepKeepMode(st, kw, type) ==
    IF IsGiven(kw.hs_color) /\ (type = MESH_LIGHT \/ type = LIGHTSTRIP)
    THEN LET color == HsToHex(kw.hs_color.v)
         IN  [st EXCEPT
                !.options = @ \o <<create_pid_pair("COLOR", color),
                                   create_pid_pair("COLOR_MODE", Str(1))>>,
                !.device.color = color]
    ELSE st

HsColorStep(st, kw, type) ==
    IF IsGiven(kw.hs_color) /\ (type = MESH_LIGHT \/ type = LIGHTSTRIP)
    THEN LET color == HsToHex(kw.hs_color.v)
         IN  [st EXCEPT
                !.options = @ \o <<create_pid_pair("COLOR", color),
                                   create_pid_pair("COLOR_MODE", Str(1))>>,
                !.device.color = color,
                !.device.color_mode = "1"]
    ELSE st

EffectStep(st, kw, type) ==
    IF IsGiven(kw.effect)
    THEN IF kw.effect.v = EFFECT_SUN_MATCH
         THEN [st EXCEPT
                 !.options = Append(@, create_pid_pair("SUN_MATCH", Str(1))),
                 !.device.sun_match = TRUE]
         ELSE LET s1 == IF type = MESH_LIGHT
                        THEN [st EXCEPT !.local_control = FALSE]
                        ELSE st
                  s2 == [s1 EXCEPT
                           !.options = Append(@, create_pid_pair("COLOR_MODE", Str(3))),
                           !.device.color_mode = "3"]
              IN  CASE kw.effect.v = EFFECT_SHADOW ->
                         [s2 EXCEPT
                            !.options = Append(@, create_pid_pair("LIGHTSTRIP_EFFECTS", Str(1))),
                            !.device.effects = "1"]
                    [] kw.effect.v = EFFECT_LEAP ->
                         [s2 EXCEPT
                            !.options = Append(@, create_pid_pair("LIGHTSTRIP_EFFECTS", Str(2))),
                            !.device.effects = "2"]
                    [] kw.effect.v = EFFECT_FLICKER ->
                         [s2 EXCEPT
                            !.options = Append(@, create_pid_pair("LIGHTSTRIP_EFFECTS", Str(3))),
                            !.device.effects = "3"]
                    [] OTHER -> s2
    ELSE st

\* The state of async_turn_on when it reaches line 208.
TurnOnResult(dev, type, cfg, kw) ==
    LET s0 == [device |-> dev, options |-> <<>>, local_control |-> cfg]
        s1 == BrightnessStep(s0, kw)
        s2 == SunMatchStep(s1, kw)
        s3 == ColorTempStep(s2, kw, type)
        s4 == HsColorStep(s3, kw, type)
    IN  EffectStep(s4, kw, type)

(***************************************************************************)
(* token_exception_handler (token_manager.py): it awaits the wrapped       *)
(* coroutine in a try block, so it catches an authentication failure that  *)
(* a call awaited inside the coroutine raises, and nothing raised later by *)
(* a task the coroutine only scheduled.                                    *)
(***************************************************************************)
token_exception_handler(outcome, awaited) ==
    [reauth |-> outcome = "auth" /\ awaited,
     unhandled |-> outcome = "auth" /\ ~awaited]

Failures == {"error", "auth"}

(***************************************************************************)
(* WyzeLight.                                                              *)
(***************************************************************************)
\* What every handler records about the state it found.
Before(op) ==
    [op |-> op, pre |-> device, flag |-> justUpdated, sched |-> scheduled,
     ntasks |-> Len(tasks)]

TurnOnNoFlag(kw) ==
    /\ bulbLife = "added"
    /\ Len(tasks) < MaxPending
    /\ scheduled < MaxScheduled
    /\ LET r == TurnOnResult(device, deviceType, cfgLocal, kw)
       IN  /\ localControl' = r.local_control
           /\ tasks' = Append(tasks, [kind |-> "turn_on"])
           /\ device' = [r.device EXCEPT !.on = TRUE]
           /\ last' = Before("turn_on") @@ [kw |-> kw, opts |-> r.options]
    /\ scheduled' = scheduled + 1
    /\ UNCHANGED <<justUpdated, deviceType, cfgLocal, bulbLife, updPc, signal, overtaken, floodVars, setupVars, req>>

\* async_turn_on(**kw)
TurnOn(kw) ==
    /\ bulbLife = "added"
    /\ Len(tasks) < MaxPending
    /\ scheduled < MaxScheduled
    /\ LET r == TurnOnResult(device, deviceType, cfgLocal, kw)
       IN  /\ localControl' = r.local_control
           /\ tasks' = Append(tasks, [kind |-> "turn_on"])
           /\ device' = [r.device EXCEPT !.on = TRUE]
           /\ last' = Before("turn_on") @@ [kw |-> kw, opts |-> r.options]
    /\ justUpdated' = TRUE
    /\ scheduled' = scheduled + 1
    /\ UNCHANGED <<deviceType, cfgLocal, bulbLife, updPc, signal, overtaken, floodVars, setupVars, req>>

\* async_turn_off()
TurnOff ==
    /\ bulbLife = "added"
    /\ Len(tasks) < MaxPending
    /\ scheduled < MaxScheduled
    /\ localControl' = cfgLocal
    /\ tasks' = Append(tasks, [kind |-> "turn_off"])
    /\ device' = [device EXCEPT !.on = FALSE]
    /\ justUpdated' = TRUE
    /\ scheduled' = scheduled + 1
    /\ last' = Before("turn_off")
    /\ UNCHANGED <<deviceType, cfgLocal, bulbLife, updPc, signal, overtaken, floodVars, setupVars, req>>

RemoveAt(s, i) == SubSeq(s, 1, i - 1) \o SubSeq(s, i + 1, Len(s))

\* A task made by create_task finishes: service.turn_on / service.turn_off
\* returned or raised.  Nothing awaits the task.
TaskDone(i, outcome) ==
    /\ i \in 1..Len(tasks)
    /\ tasks' = RemoveAt(tasks, i)
    /\ overtaken' = (overtaken \/ i > 1)
    /\ last' = Before("task_done") @@
               [kind |-> tasks[i].kind, outcome |-> outcome, idx |-> i] @@
               token_exception_handler(outcome, FALSE)
    /\ UNCHANGED <<device, deviceType, cfgLocal, localControl, justUpdated, bulbLife,
                   scheduled, updPc, signal, floodVars, setupVars, req>>

\* The host runs a state update the entity scheduled.
HostWrite ==
    /\ scheduled > 0
    /\ scheduled' = scheduled - 1
    /\ last' = Before("host_write")
    /\ UNCHANGED <<device, deviceType, cfgLocal, localControl, justUpdated, bulbLife,
                   tasks, updPc, signal, overtaken,
                   floodVars, setupVars, req>>

UpdateStartKeepFlag ==
    /\ bulbLife \in {"new", "added"}
    /\ updPc = "idle"
    /\ updPc' = IF justUpdated THEN "idle" ELSE "fetching"
    /\ last' = Before(IF justUpdated THEN "update_skip" ELSE "update_call")
    /\ UNCHANGED <<device, deviceType, cfgLocal, localControl, justUpdated, bulbLife,
                   tasks, scheduled, signal, overtaken,
                   floodVars, setupVars, req>>

\* async_update up to its suspension point: the flag is tested; when it is set
\* the flag is cleared and the handler returns, otherwise service.update is called.
UpdateStart ==
    /\ bulbLife \in {"new", "added"}
    /\ updPc = "idle"
    /\ updPc' = IF justUpdated THEN "idle" ELSE "fetching"
    /\ justUpdated' = FALSE
    /\ last' = Before(IF justUpdated THEN "update_skip" ELSE "update_call")
    /\ UNCHANGED <<device, deviceType, cfgLocal, localControl, bulbLife,
                   tasks, scheduled, signal, overtaken,
                   floodVars, setupVars, req>>

UpdateFinishKeepDevice(bulb) ==
    /\ updPc = "fetching"
    /\ updPc' = "idle"
    /\ last' = Before("update_done") @@ [rec |-> bulb]
    /\ UNCHANGED <<device, deviceType, cfgLocal, localControl, justUpdated, bulbLife,
                   tasks, scheduled, signal, overtaken,
                   floodVars, setupVars, req>>

\* service.update returned `bulb`: self._device = bulb.
UpdateFinish(bulb) ==
    /\ updPc = "fetching"
    /\ updPc' = "idle"
    /\ device' = bulb
    /\ last' = Before("update_done") @@ [rec |-> bulb]
    /\ UNCHANGED <<deviceType, cfgLocal, localControl, justUpdated, bulbLife,
                   tasks, scheduled, signal, overtaken,
                   floodVars, setupVars, req>>

\* service.update raised: the assignment does not happen.
UpdateFail(outcome) ==
    /\ updPc = "fetching"
    /\ updPc' = "idle"
    /\ last' = Before("update_failed") @@ [outcome |-> outcome] @@
               token_exception_handler(outcome, TRUE)
    /\ UNCHANGED <<device, deviceType, cfgLocal, localControl, justUpdated, bulbLife,
                   tasks, scheduled, signal, overtaken,
                   floodVars, setupVars, req>>

\* async_update_callback(bulb): the vendor client pushes a record.
UpdateCallback(bulb) ==
    /\ bulbLife = "added"
    /\ scheduled < MaxScheduled
    /\ device' = bulb
    /\ localControl' = cfgLocal
    /\ signal' = [name |-> "LIGHT_UPDATED", mac |-> bulb.mac, payload |-> bulb]
    /\ scheduled' = scheduled + 1
    /\ last' = Before("callback") @@ [rec |-> bulb]
    /\ UNCHANGED <<deviceType, cfgLocal, justUpdated, bulbLife, tasks, updPc, overtaken, floodVars, setupVars, req>>

\* WyzeLight.async_added_to_hass: the callback and the updater are registered.
BulbAdded ==
    /\ bulbLife = "new"
    /\ updPc = "idle"
    /\ bulbLife' = "added"
    /\ last' = Before("bulb_added")
    /\ UNCHANGED <<device, deviceType, cfgLocal, localControl, justUpdated,
                   tasks, scheduled, updPc, signal, overtaken,
                   floodVars, setupVars, req>>

\* WyzeLight.async_will_remove_from_hass: the updater is unregistered.
BulbRemoved ==
    /\ bulbLife = "added"
    /\ bulbLife' = "removed"
    /\ last' = Before("bulb_removed")
    /\ UNCHANGED <<device, deviceType, cfgLocal, localControl, justUpdated,
                   tasks, scheduled, updPc, signal, overtaken,
                   floodVars, setupVars, req>>

(***************************************************************************)
(* WyzeCamerafloodlight.                                                   *)
(***************************************************************************)
FloodBefore(op) ==
    [op |-> op, cam |-> camera, fsched |-> floodSched, fha |-> floodHa]

IsOnText(b) == IF b THEN "on" ELSE "off"

\* WyzeCamerafloodlight.async_added_to_hass: handle_camera_update is connected
\* to CAMERA_UPDATED-<mac>, the disconnect registered with async_on_remove.
FloodAdded ==
    /\ floodLife = "new"
    /\ floodLife' = "added"
    /\ last' = FloodBefore("flood_added")
    /\ UNCHANGED <<camera, floodCalls, floodSched, floodHa, bulbVars, setupVars, req>>

\* The host removes the entity and runs what async_on_remove registered.
FloodRemoved ==
    /\ floodLife = "added"
    /\ floodLife' = "removed"
    /\ last' = FloodBefore("flood_removed")
    /\ UNCHANGED <<camera, floodCalls, floodSched, floodHa, bulbVars, setupVars, req>>

\* Whether the dispatcher delivers a CAMERA_UPDATED-<mac> signal to the entity.
FloodConnected(mac) == floodLife = "added" /\ mac = camera.mac

HandleCameraUpdateNoWrite(cam) ==
    /\ camera' = cam
    /\ UNCHANGED floodHa

\* handle_camera_update(camera)
HandleCameraUpdate(cam) ==
    /\ camera' = cam
    /\ floodHa' = IsOnText(cam.floodlight)

\* A CAMERA_UPDATED-<mac> signal carrying `cam` is sent on the dispatcher.
CameraSignal(mac, cam) ==
    /\ IF FloodConnected(mac)
       THEN HandleCameraUpdate(cam)
       ELSE UNCHANGED <<camera, floodHa>>
    /\ last' = FloodBefore("camera_signal") @@
               [mac |-> mac, rec |-> cam, delivered |-> FloodConnected(mac),
                life |-> floodLife]
    /\ UNCHANGED <<floodLife, floodCalls, floodSched, bulbVars, setupVars, req>>

\* async_turn_on / async_turn_off up to the await of the vendor call.
FloodCall(kind) ==
    /\ floodLife = "added"
    /\ Len(floodCalls) < MaxPending
    /\ floodCalls' = Append(floodCalls, kind)
    /\ last' = FloodBefore("flood_call") @@ [kind |-> kind]
    /\ UNCHANGED <<camera, floodLife, floodSched, floodHa, bulbVars, setupVars, req>>

FloodCallDoneAlwaysSchedule(i, outcome) ==
    /\ i \in 1..Len(floodCalls)
    /\ floodSched < MaxScheduled
    /\ floodCalls' = RemoveAt(floodCalls, i)
    /\ floodSched' = floodSched + 1
    /\ last' = FloodBefore("flood_done") @@
               [kind |-> floodCalls[i], outcome |-> outcome] @@
               token_exception_handler(outcome, TRUE)
    /\ UNCHANGED <<camera, floodLife, floodHa, bulbVars, setupVars, req>>

\* The awaited floodlight_on / floodlight_off returned or raised; after a
\* return the state update is scheduled.
FloodCallDone(i, outcome) ==
    /\ i \in 1..Len(floodCalls)
    /\ outcome = "ok" => floodSched < MaxScheduled
    /\ floodCalls' = RemoveAt(floodCalls, i)
    /\ floodSched' = IF outcome = "ok" THEN floodSched + 1 ELSE floodSched
    /\ last' = FloodBefore("flood_done") @@
               [kind |-> floodCalls[i], outcome |-> outcome] @@
               token_exception_handler(outcome, TRUE)
    /\ UNCHANGED <<camera, floodLife, floodHa, bulbVars, setupVars, req>>

\* The host runs a state update the floodlight entity scheduled: it reads is_on.
FloodHostWrite ==
    /\ floodSched > 0
    /\ floodSched' = floodSched - 1
    /\ floodHa' = IsOnText(camera.floodlight)
    /\ last' = FloodBefore("flood_host_write")
    /\ UNCHANGED <<camera, floodLife, floodCalls, bulbVars, setupVars, req>>

(***************************************************************************)
(* async_setup_entry.                                                      *)
(***************************************************************************)
\* camera.device_params.get("spotlight_status", 0) > 0
HasSpotlightNonNegative(cam) ==
    (IF cam.spotlight_status.tag = "absent" THEN 0 ELSE cam.spotlight_status.v) >= 0

HasSpotlight(cam) ==
    (IF cam.spotlight_status.tag = "absent" THEN 0 ELSE cam.spotlight_status.v) > 0

\* WyzeLight.__init__ raises for a product type it does not support.
WyzeLightSupported(bulb) == bulb.product_type \in SupportedTypes

WyzeLightEntity(bulb) == [cls |-> "WyzeLight", device |-> bulb]

WyzeCamerafloodlightEntity(cam) == [cls |-> "WyzeCamerafloodlight", device |-> cam]

RECURSIVE FloodlightsOf(_)
\* the loop of lines 78-80 over the cameras, in order
FloodlightsOf(cams) ==
    IF cams = <<>> THEN <<>>
    ELSE (IF HasSpotlight(Head(cams))
          THEN <<WyzeCamerafloodlightEntity(Head(cams))>> ELSE <<>>)
         \o FloodlightsOf(Tail(cams))

SetupBefore(op, outcome) ==
    [op |-> op, outcome |-> outcome] @@ token_exception_handler(outcome, TRUE)

\* await client.camera_service
SetupCameraService(outcome) ==
    /\ setupPc = "start"
    /\ setupPc' = IF outcome = "ok" THEN "camera_service" ELSE "failed"
    /\ last' = SetupBefore("setup_camera_service", outcome)
    /\ UNCHANGED <<bulbsIn, camerasIn, lights, addCalls, bulbVars, floodVars, req>>

\* await client.bulb_service
SetupBulbService(outcome) ==
    /\ setupPc = "camera_service"
    /\ setupPc' = IF outcome = "ok" THEN "bulb_service" ELSE "failed"
    /\ last' = SetupBefore("setup_bulb_service", outcome)
    /\ UNCHANGED <<bulbsIn, camerasIn, lights, addCalls, bulbVars, floodVars, req>>

\* await bulb_service.get_bulbs(), then one WyzeLight per bulb; a constructor
\* that raises ends the set-up.
SetupGetBulbs(outcome) ==
    /\ setupPc = "bulb_service"
    /\ IF outcome # "ok"
       THEN /\ setupPc' = "failed"
            /\ last' = SetupBefore("setup_get_bulbs", outcome)
            /\ UNCHANGED lights
       ELSE IF \A i \in 1..Len(bulbsIn) : WyzeLightSupported(bulbsIn[i])
       THEN /\ setupPc' = "lights"
            /\ lights' = [i \in 1..Len(bulbsIn) |-> WyzeLightEntity(bulbsIn[i])]
            /\ last' = SetupBefore("setup_get_bulbs", outcome)
       ELSE /\ setupPc' = "failed"
            /\ last' = SetupBefore("setup_get_bulbs", "raised")
            /\ UNCHANGED lights
    /\ UNCHANGED <<bulbsIn, camerasIn, addCalls, bulbVars, floodVars, req>>

\* await camera_service.get_cameras(), the loop over the cameras and
\* async_add_entities(lights, True).
SetupGetCameras(outcome) ==
    /\ setupPc = "lights"
    /\ IF outcome # "ok"
       THEN /\ setupPc' = "failed"
            /\ UNCHANGED <<lights, addCalls>>
       ELSE /\ setupPc' = "done"
            /\ lights' = lights \o FloodlightsOf(camerasIn)
            /\ addCalls' = Append(addCalls,
                                  [entities |-> lights', update_before_add |-> TRUE])
    /\ last' = SetupBefore("setup_get_cameras", outcome)
    /\ UNCHANGED <<bulbsIn, camerasIn, bulbVars, floodVars, req>>

(***************************************************************************)
(* Initial values.                                                         *)
(***************************************************************************)
Bulb0 ==
    [mac |-> "B1", on |-> FALSE, brightness |-> 40, color_temp |-> 4000,
     color |-> "ffcea6", color_mode |-> "2", sun_match |-> FALSE, effects |-> "0"]

\* Records the vendor service may return or push for the bulb.
RemoteBulbs ==
    {Bulb0,
     [Bulb0 EXCEPT !.on = TRUE, !.brightness = 80, !.color_mode = "1",
                   !.color = "00ff00", !.sun_match = TRUE]}

Camera0 == [mac |-> "C1", floodlight |-> FALSE]
RemoteCameras == {Camera0, [Camera0 EXCEPT !.floodlight = TRUE]}
CameraMacs == {"C1", "C2"}

BulbIdle ==
    /\ cfgLocal = TRUE
    /\ localControl = cfgLocal
    /\ justUpdated = FALSE
    /\ tasks = <<>>
    /\ scheduled = 0
    /\ updPc = "idle"
    /\ signal = [name |-> "none"]
    /\ overtaken = FALSE

FloodIdle ==
    /\ camera = Camera0
    /\ floodLife = "new"
    /\ floodCalls = <<>>
    /\ floodSched = 0
    /\ floodHa = "unknown"

SetupIdle ==
    /\ setupPc = "done"
    /\ bulbsIn = <<>>
    /\ camerasIn = <<>>
    /\ lights = <<>>
    /\ addCalls = <<>>

Outcomes == {"ok"} \cup Failures

(***************************************************************************)
(* Spec: one added bulb entity, its commands, polls, pushes and the remote *)
(* calls it schedules.                                                     *)
(***************************************************************************)
CmdKwargs ==
    {NoKwargs,
     [NoKwargs EXCEPT !.brightness = Val(128)],
     [NoKwargs EXCEPT !.hs_color = Val(<<240, 100>>)],
     [NoKwargs EXCEPT !.color_temp = Val(370), !.effect = Val(EFFECT_SUN_MATCH)]}

Init ==
    /\ device = Bulb0
    /\ deviceType \in {LIGHT, MESH_LIGHT}
    /\ BulbIdle
    /\ bulbLife = "added"
    /\ FloodIdle
    /\ SetupIdle
    /\ req = NoKwargs
    /\ last = [op |-> "init"]

Next ==
    \/ \E kw \in CmdKwargs : TurnOn(kw)
    \/ TurnOff
    \/ \E i \in 1..MaxPending, o \in Outcomes : TaskDone(i, o)
    \/ HostWrite
    \/ UpdateStart
    \/ \E b \in RemoteBulbs : UpdateFinish(b)
    \/ \E o \in Failures : UpdateFail(o)
    \/ \E b \in RemoteBulbs : UpdateCallback(b)

Spec == Init /\ [][Next]_vars

(***************************************************************************)
(* SpecPush: the life of both entities and what the vendor client pushes.  *)
(***************************************************************************)
InitPush ==
    /\ device = Bulb0
    /\ deviceType = MESH_LIGHT
    /\ BulbIdle
    /\ bulbLife = "new"
    /\ FloodIdle
    /\ SetupIdle
    /\ req = NoKwargs
    /\ last = [op |-> "init"]

NextPush ==
    \/ BulbAdded
    \/ BulbRemoved
    \/ \E b \in RemoteBulbs : UpdateCallback(b)
    \/ HostWrite
    \/ FloodAdded
    \/ FloodRemoved
    \/ \E m \in CameraMacs, c \in RemoteCameras : CameraSignal(m, c)
    \/ \E k \in {"on", "off"} : FloodCall(k)
    \/ \E i \in 1..MaxPending, o \in Outcomes : FloodCallDone(i, o)
    \/ FloodHostWrite

SpecPush == InitPush /\ [][NextPush]_vars

(***************************************************************************)
(* SpecTurnOn, SpecBright: one async_turn_on call, its arguments and the   *)
(* record it finds drawn from all the combinations below.                  *)
(***************************************************************************)
ArgStates(vals, d) == {Absent(d), None(d)} \cup {Val(x) : x \in vals}

AllKwargs ==
    [brightness : ArgStates({0, 128}, 0),
     color_temp : ArgStates({153, 370}, 0),
     hs_color : ArgStates({<<0, 100>>, <<240, 100>>}, <<>>),
     effect : ArgStates({EFFECT_SUN_MATCH, EFFECT_SHADOW, EFFECT_LEAP,
                         EFFECT_FLICKER, "rainbow"}, "")]

BrightKwargs ==
    {[k EXCEPT !.brightness = b] :
        k \in {NoKwargs,
               [NoKwargs EXCEPT !.color_temp = Val(370),
                                !.hs_color = Val(<<240, 100>>),
                                !.effect = Val(EFFECT_SHADOW)]},
        b \in ArgStates(0..255, 0)}

InitCall(devices, kwargs) ==
    /\ device \in devices
    /\ deviceType \in SupportedTypes
    /\ BulbIdle
    /\ bulbLife = "added"
    /\ FloodIdle
    /\ SetupIdle
    /\ req \in kwargs
    /\ last = [op |-> "init"]

InitTurnOn ==
    InitCall({[Bulb0 EXCEPT !.sun_match = sm, !.color_mode = cm] :
                 sm \in BOOLEAN, cm \in {"1", "2", "3"}}, AllKwargs)

InitBright ==
    InitCall({[Bulb0 EXCEPT !.brightness = b] : b \in {0, 40, 100}}, BrightKwargs)

NextCall ==
    \/ last.op = "init" /\ TurnOn(req)
    \/ \E i \in 1..MaxPending, o \in Outcomes : TaskDone(i, o)
    \/ HostWrite

SpecTurnOn == InitTurnOn /\ [][NextCall]_vars

SpecBright == InitBright /\ [][NextCall]_vars

(***************************************************************************)
(* SpecSetup: async_setup_entry on every list of bulbs and cameras.        *)
(***************************************************************************)
SeqsUpTo(S, n) == UNION {[1..k -> S] : k \in 0..n}

ProductTypes == SupportedTypes \cup {"Plug"}

SpotlightParams == ArgStates({0, 1}, 0) \ {None(0)}

InitSetup ==
    /\ device = Bulb0
    /\ deviceType = LIGHT
    /\ BulbIdle
    /\ bulbLife = "new"
    /\ FloodIdle
    /\ setupPc = "start"
    /\ \E types \in SeqsUpTo(ProductTypes, MaxBulbs) :
          bulbsIn = [i \in 1..Len(types) |-> [id |-> i, product_type |-> types[i]]]
    /\ \E params \in SeqsUpTo(SpotlightParams, MaxCameras) :
          camerasIn = [i \in 1..Len(params) |-> [id |-> i, spotlight_status |-> params[i]]]
    /\ lights = <<>>
    /\ addCalls = <<>>
    /\ req = NoKwargs
    /\ last = [op |-> "init"]

NextSetup ==
    \/ \E o \in Outcomes : SetupCameraService(o)
    \/ \E o \in Outcomes : SetupBulbService(o)
    \/ \E o \in Outcomes : SetupGetBulbs(o)
    \/ \E o \in Outcomes : SetupGetCameras(o)

SpecSetup == InitSetup /\ [][NextSetup]_vars

(***************************************************************************)
(* Properties.                                                             *)
(***************************************************************************)
Commands == {"turn_on", "turn_off"}

PairsOf(opts, pid) == SelectSeq(opts, LAMBDA p : p.pid = pid)

\* C1: async_turn_on / async_turn_off return with the remote call only
\* scheduled (the task is still pending), the record's on flag set to the
\* command, _just_updated set and one more state update scheduled; whatever
\* the remote call does later (return, raise) leaves the record, the flag
\* and the scheduled updates as they were.
C1_OptimisticCommand ==
    /\ last.op \in Commands =>
          /\ device.on = (last.op = "turn_on")
          /\ justUpdated
          /\ scheduled = last.sched + 1
          /\ Len(tasks) = last.ntasks + 1
          /\ tasks[Len(tasks)].kind = last.op
    /\ last.op = "task_done" =>
          /\ device = last.pre
          /\ justUpdated = last.flag
          /\ scheduled = last.sched

\* C1 witness: the remote turn_on has failed and the entity reports is_on.
C1_OnAfterFailedCall ==
    /\ last.op = "task_done"
    /\ last.kind = "turn_on"
    /\ last.outcome = "error"
    /\ device.on

\* C2: a fetched or pushed record replaces the device record whether or not
\* remote calls are pending, and right after a command is_on is what that
\* command set.
C2_ReadsReplaceRecord ==
    /\ last.op \in {"update_done", "callback"} => device = last.rec
    /\ last.op \in Commands => device.on = (last.op = "turn_on")

\* C2 witness: a remote call has finished before an earlier one, and with a
\* turn_on still pending a push has replaced the optimistic record (on and
\* brightness) by the pushed one.
C2_PushBeforeCallCompletes ==
    /\ last.op = "callback"
    /\ overtaken
    /\ tasks # <<>>
    /\ tasks[1].kind = "turn_on"
    /\ last.pre.on
    /\ last.pre.brightness = 50
    /\ ~device.on
    /\ device.brightness = 40

\* C3 (as claimed): every authentication failure raised by a vendor call is
\* caught by token_exception_handler and starts the re-authentication flow.
C3_AuthFailuresHandled ==
    (last.op \in {"task_done", "update_failed"} /\ last.outcome = "auth") =>
        (last.reauth /\ ~last.unhandled)

\* C4: a given brightness b puts exactly one BRIGHTNESS pair in the options,
\* its value the integer of 0..100 nearest to b*100/255, and sets the
\* record's brightness to it; without a brightness (missing or None) there
\* is no BRIGHTNESS pair and the record's brightness is unchanged.
C4_BrightnessPercent ==
    last.op = "turn_on" =>
        LET pairs == PairsOf(last.opts, "BRIGHTNESS")
            b == last.kw.brightness
        IN  IF b.tag = "val"
            THEN /\ Len(pairs) = 1
                 /\ \E v \in 0..100 :
                       /\ pairs[1].pvalue = Str(v)
                       /\ 2 * (255 * v - 100 * b.v) <= 255
                       /\ 2 * (100 * b.v - 255 * v) <= 255
                       /\ device.brightness = v
            ELSE /\ pairs = <<>>
                 /\ device.brightness = last.pre.brightness

\* C4 witness: brightness 1, which rounds down to 0 per cent.
C4_BrightnessOne ==
    /\ last.op = "turn_on"
    /\ last.kw.brightness = Val(1)
    /\ device.brightness = 0
    /\ last.pre.brightness = 100

\* C5: async_update_callback(bulb) makes the pushed bulb the record, sends
\* LIGHT_UPDATED-<mac> with it and schedules a state update; a
\* CAMERA_UPDATED-<mac> signal sent while the floodlight entity is added makes
\* the pushed camera the record and writes is_on = its floodlight value; one
\* sent after the entity was removed changes nothing.
C5_PushRerenders ==
    /\ last.op = "callback" =>
          /\ device = last.rec
          /\ signal = [name |-> "LIGHT_UPDATED", mac |-> last.rec.mac,
                       payload |-> last.rec]
          /\ scheduled = last.sched + 1
    /\ (last.op = "camera_signal" /\ last.life = "added" /\ last.mac = last.cam.mac) =>
          /\ camera = last.rec
          /\ floodHa = (IF last.rec.floodlight THEN "on" ELSE "off")
    /\ (last.op = "camera_signal" /\ last.life = "removed") =>
          /\ camera = last.cam
          /\ floodHa = last.fha

\* C5 witness: after a bulb push, a camera push turned the written state on.
C5_CameraPushWritten ==
    /\ last.op = "camera_signal"
    /\ last.life = "added"
    /\ last.fha = "off"
    /\ camera.floodlight
    /\ floodHa = "on"
    /\ signal.name = "LIGHT_UPDATED"

\* C6: async_add_entities is called at most once, exactly when the set-up
\* completes; its list holds exactly one WyzeLight per bulb and one
\* WyzeCamerafloodlight per camera whose spotlight_status is above 0, and
\* nothing else; with only supported bulbs the set-up fails only when a
\* vendor call fails.
C6_SetupEntities ==
    LET supported == \A i \in DOMAIN bulbsIn :
                        bulbsIn[i].product_type \in {LIGHT, MESH_LIGHT, LIGHTSTRIP}
        spot(c) == c.spotlight_status.tag = "val" /\ c.spotlight_status.v > 0
        Count(ents, e) == Cardinality({k \in DOMAIN ents : ents[k] = e})
    IN  /\ Len(addCalls) = (IF setupPc = "done" THEN 1 ELSE 0)
        /\ (supported /\ setupPc = "failed") => last.outcome \in Failures
        /\ setupPc = "done" =>
              LET ents == addCalls[1].entities
              IN  /\ supported
                  /\ \A i \in DOMAIN bulbsIn :
                        Count(ents, [cls |-> "WyzeLight", device |-> bulbsIn[i]]) = 1
                  /\ \A j \in DOMAIN camerasIn :
                        Count(ents, [cls |-> "WyzeCamerafloodlight",
                                     device |-> camerasIn[j]])
                           = (IF spot(camerasIn[j]) THEN 1 ELSE 0)
                  /\ Len(ents) = Len(bulbsIn)
                        + Cardinality({j \in DOMAIN camerasIn : spot(camerasIn[j])})

\* C6 witness: two bulbs, a camera without the parameter and one with
\* spotlight_status 1: three entities are added.
C6_ThreeEntitiesAdded ==
    /\ setupPc = "done"
    /\ Len(bulbsIn) = 2
    /\ Len(camerasIn) = 2
    /\ camerasIn[1].spotlight_status.tag = "absent"
    /\ camerasIn[2].spotlight_status = Val(1)
    /\ Len(addCalls[1].entities) = 3

\* C7 (as claimed): with sun match on, a call that gives a colour
\* temperature, an HS colour or an effect other than sun match sends
\* SUN_MATCH 0 and clears the record's sun_match; a call with brightness only
\* or nothing sends no SUN_MATCH pair and leaves sun_match on.
C7_SunMatchTurnedOff ==
    (last.op = "turn_on" /\ last.pre.sun_match) =>
        LET kw == last.kw
            sun == PairsOf(last.opts, "SUN_MATCH")
            sunEffect == kw.effect.tag = "val" /\ kw.effect.v = EFFECT_SUN_MATCH
            other == \/ kw.color_temp.tag = "val"
                     \/ kw.hs_color.tag = "val"
                     \/ (kw.effect.tag = "val" /\ kw.effect.v # EFFECT_SUN_MATCH)
        IN  /\ (other /\ ~sunEffect) =>
                  /\ \E k \in DOMAIN sun : sun[k].pvalue = "0"
                  /\ ~device.sun_match
            /\ (~other /\ ~sunEffect) =>
                  /\ sun = <<>>
                  /\ device.sun_match

\* C8 (as claimed): a poll that finds the flag set fetches nothing, keeps the
\* record and clears the flag; a poll that finds it clear replaces the record
\* by the fetched one and leaves the flag clear.
C8_PollLeavesFlagClear ==
    /\ last.op = "update_skip" =>
          /\ device = last.pre
          /\ ~justUpdated
          /\ updPc = "idle"
    /\ last.op = "update_done" =>
          /\ device = last.rec
          /\ ~justUpdated

\* C8 (amended): a poll that finds the flag set fetches nothing, keeps the
\* record and clears the flag; a poll that finds it clear calls
\* service.update (one call in flight), and when the call returns replaces
\* the record by the result without writing the flag; the flag goes from
\* clear to set only in a command.
C8_PollAndFlag ==
    /\ last.op = "update_skip" =>
          /\ last.flag
          /\ device = last.pre
          /\ ~justUpdated
          /\ updPc = "idle"
    /\ last.op = "update_call" =>
          /\ ~last.flag
          /\ device = last.pre
          /\ ~justUpdated
          /\ updPc = "fetching"
    /\ last.op = "update_done" =>
          /\ device = last.rec
          /\ justUpdated = last.flag
          /\ updPc = "idle"
    /\ (last.op # "init" /\ justUpdated /\ ~last.flag) => last.op \in Commands

\* C8 witness: two commands were issued, one poll has been skipped, and the
\* next poll calls service.update.
C8_SecondPollFetches ==
    /\ last.op = "update_call"
    /\ Len(tasks) >= 2

\* C9: the floodlight command schedules no state update before the vendor
\* call ends; it schedules one when the call returns and none when it raises,
\* and in no case assigns the record or what is_on reports.
C9_FloodAwaitsCall ==
    /\ last.op = "flood_call" =>
          /\ floodSched = last.fsched
          /\ camera = last.cam
          /\ floodHa = last.fha
          /\ floodCalls # <<>>
          /\ floodCalls[Len(floodCalls)] = last.kind
    /\ last.op = "flood_done" =>
          /\ floodSched = last.fsched + (IF last.outcome = "ok" THEN 1 ELSE 0)
          /\ camera = last.cam
          /\ camera.floodlight = last.cam.floodlight
          /\ floodHa = last.fha

\* C9 witness: floodlight_on raised; nothing is scheduled and is_on is False.
C9_FloodOnFailed ==
    /\ last.op = "flood_done"
    /\ last.kind = "on"
    /\ last.outcome = "error"
    /\ floodSched = 0
    /\ ~camera.floodlight

\* C10: after async_turn_on the record's color_mode is the value of the last
\* COLOR_MODE pair of the options ("3" for an effect other than sun match,
\* else "1" for an HS colour and "2" for a colour temperature on a mesh light
\* or light strip), or unchanged when there is none; a plain LIGHT given no
\* effect sends neither a COLOR_MODE nor a COLOR pair and keeps its color_mode.
C10_ColorModeFollowsOptions ==
    last.op = "turn_on" =>
        LET kw == last.kw
            modes == PairsOf(last.opts, "COLOR_MODE")
            rich == deviceType \in {MESH_LIGHT, LIGHTSTRIP}
            effect == kw.effect.tag = "val" /\ kw.effect.v # EFFECT_SUN_MATCH
        IN  /\ IF modes = <<>>
               THEN device.color_mode = last.pre.color_mode
               ELSE device.color_mode = modes[Len(modes)].pvalue
            /\ modes # <<>> =>
                  modes[Len(modes)].pvalue =
                     (IF effect THEN "3"
                      ELSE IF kw.hs_color.tag = "val" /\ rich THEN "1" ELSE "2")
            /\ (deviceType = LIGHT /\ kw.effect.tag # "val") =>
                  /\ modes = <<>>
                  /\ PairsOf(last.opts, "COLOR") = <<>>
                  /\ device.color_mode = last.pre.color_mode

\* C10 witness: a light strip given a colour temperature, an HS colour and the
\* shadow effect: three COLOR_MODE pairs, the record ends in mode "3".
C10_ThreeModePairs ==
    /\ last.op = "turn_on"
    /\ deviceType = LIGHTSTRIP
    /\ Len(PairsOf(last.opts, "COLOR_MODE")) = 3
    /\ last.kw.effect = Val(EFFECT_SHADOW)
    /\ device.color_mode = "3"
    /\ last.pre.color_mode = "1"

=============================================================================
